---- MODULE Spec2Model ----
(***************************************************************************)
(* BaselineModel of examples/ycb_video/singleview_3d/contrib/models/       *)
(* baseline.py: one call of BaselineModel.__call__ as a state machine.     *)
(*                                                                         *)
(* Arrays are sequences indexed 1..B (the batch axis); the per-class axis  *)
(* of the head outputs keeps the source's numbering 0..n_fg_class-1.       *)
(* Real numbers are integers (coordinates, raw head outputs) or exact      *)
(* fractions <<numerator, denominator>> (means, normalized quaternions).   *)
(* Raw quaternion outputs are counted in units of the eps of F.normalize   *)
(* (1e-5), so that eps is the integer 1.                                   *)
(* A pixel of a point cloud image is [v |-> <<x, y, z>>, nan |-> <<..>>]:  *)
(* nan[k] says that coordinate k is not a number (v[k] is then unused).    *)
(* An optional array argument is [given |-> FALSE, ...] when it is None.   *)
(***************************************************************************)
EXTENDS Integers, Sequences, FiniteSets

VARIABLES
    cfg,        \* self._n_fg_class, self._voxelization, self._use_occupancy, chainer.config.train
    params,     \* what the trained links compute for each image of the batch
    args,       \* the keyword arguments of __call__
    pc,         \* position in __call__ / predict
    kept,       \* the local arrays of __call__ after filtering (the arguments of predict, evaluate, loss)
    h,          \* predict: per-sample feature maps after conv5 and resize_images
    h_vox,      \* predict: one entry per voxelized sample (what was handed to func, and the grid)
    pred,       \* predict's return value (quaternion, translation) and the slices it selected
    reported,   \* the observations handed to chainer.report
    ret         \* what __call__ returned or raised

vars == <<cfg, params, args, pc, kept, h, h_vox, pred, reported, ret>>

-----------------------------------------------------------------------------
(* Bounds of the model *)

MaxBatch == 3
HeadBatch == 2
NFgClass == 2
NumPixels == 2

(* Constants of the program *)

VoxelDim == 32
ImageSize == 256
ImageChannels == 3
FeatureChannels == 16
PaddingClassId == -1
NormalizeEps == 1


-----------------------------------------------------------------------------
(* numpy helpers *)

\* arr[mask] for a boolean mask over the first axis: the indices kept, in order
RECURSIVE MaskIndices(_, _)
MaskIndices(mask, i) ==
    IF i > Len(mask) THEN <<>>
    ELSE IF mask[i] THEN <<i>> \o MaskIndices(mask, i + 1)
    ELSE MaskIndices(mask, i + 1)

BoolIndex(arr, mask) ==
    LET idx == MaskIndices(mask, 1)
    IN  [k \in 1..Len(idx) |-> arr[idx[k]]]

\* class_id != -1
KeepMask(class_id) == [i \in 1..Len(class_id) |-> class_id[i] # PaddingClassId]

\* keep.sum()
RECURSIVE CountTrue(_, _)
CountTrue(mask, i) ==
    IF i > Len(mask) THEN 0
    ELSE (IF mask[i] THEN 1 ELSE 0) + CountTrue(mask, i + 1)

\* rgb[keep] for the image batch: the shape's H, W, C stay, the batch axis is filtered
FilterImages(rgb, mask) == [rgb EXCEPT !.img = BoolIndex(@, mask)]

\* grid[keep] for an occupancy grid batch
FilterGrid(grid, mask) == [grid EXCEPT !.data = BoolIndex(@, mask)]

-----------------------------------------------------------------------------
(* Arithmetic: exact fractions <<n, d>> with d > 0, in lowest terms *)

Abs(x) == IF x < 0 THEN 0 - x ELSE x

RECURSIVE GCD(_, _)
GCD(a, b) == IF b = 0 THEN a ELSE GCD(b, a % b)

\* the float n / d
Rat(n, d) ==
    LET g == GCD(Abs(n), d)
    IN  IF n = 0 THEN <<0, 1>> ELSE <<n \div g, d \div g>>

RatAdd(a, b) == Rat(a[1] * b[2] + b[1] * a[2], a[2] * b[2])

\* a / k for an integer k > 0
RatDivInt(a, k) == Rat(a[1], a[2] * k)

RatZero == <<0, 1>>

\* floor of the square root (binary search between lo and hi)
RECURSIVE SqrtSearch(_, _, _)
SqrtSearch(s, lo, hi) ==
    IF lo >= hi THEN lo
    ELSE LET mid == (lo + hi + 1) \div 2
         IN  IF mid * mid <= s THEN SqrtSearch(s, mid, hi)
             ELSE SqrtSearch(s, lo, mid - 1)

\* the maximal root 46340 keeps mid * mid a 32-bit integer
ISqrt(s) == SqrtSearch(s, 0, 46340)

RECURSIVE SumSeq(_, _)
SumSeq(v, i) == IF i > Len(v) THEN 0 ELSE v[i] + SumSeq(v, i + 1)

\* sqrt(sum(v ** 2)), at the resolution of one integer unit
Norm(v) == ISqrt(SumSeq([k \in 1..Len(v) |-> v[k] * v[k]], 1))

\* sum(|v|)
NormL1(v) == SumSeq([k \in 1..Len(v) |-> Abs(v[k])], 1)

VecAdd(a, b) == [k \in 1..Len(a) |-> a[k] + b[k]]
VecSub(a, b) == [k \in 1..Len(a) |-> a[k] - b[k]]
VecScale(a, s) == [k \in 1..Len(a) |-> a[k] * s]

Max2(a, b) == IF a >= b THEN a ELSE b

RECURSIVE MaxSeq(_, _)
MaxSeq(v, i) == IF i >= Len(v) THEN v[i] ELSE Max2(v[i], MaxSeq(v, i + 1))

RECURSIVE MinSeq(_, _)
MinSeq(v, i) ==
    IF i >= Len(v) THEN v[i]
    ELSE LET m == MinSeq(v, i + 1) IN IF v[i] <= m THEN v[i] ELSE m

\* numpy's a[k] on an axis of length n: negative k counts from the end,
\* and k outside -n..n-1 raises IndexError
IndexInRange(n, k) == 0 - n <= k /\ k < n

NumpyIndex(n, k) == IF k < 0 THEN n + k ELSE k

-----------------------------------------------------------------------------
(* chainer.functions.normalize(x, eps=1e-5, axis=1), one row:               *)
(* x / (sqrt(sum(x ** 2)) + eps), a vector over a common denominator         *)

NormalizeRow(x) == [num |-> x, den |-> Norm(x) + NormalizeEps]

\* the L2 norm of such a vector, as a fraction
RowNorm(q) == Rat(Norm(q.num), q.den)

-----------------------------------------------------------------------------
(* objslampp.functions: voxelization of (feature, point) pairs.            *)
(* A grid is kept sparsely: a function from the cells that received a point *)
(* to the cell's C channel values; every other cell of the grid is zero.    *)

Dimensions == <<VoxelDim, VoxelDim, VoxelDim>>

\* the cell a point falls in
VoxelIndex(point, origin, pitch) ==
    [k \in 1..3 |-> (point.v[k] - origin[k]) \div pitch]

InGrid(cell, dimensions) ==
    \A k \in 1..3 : 0 <= cell[k] /\ cell[k] < dimensions[k]

\* the positions of the points that fall in `cell`, in order
PointsIn(cell, points, origin, pitch) ==
    LET hit == [j \in 1..Len(points) |-> VoxelIndex(points[j], origin, pitch) = cell]
    IN  MaskIndices(hit, 1)

OccupiedCells(points, origin, pitch, dimensions) ==
    {c \in {VoxelIndex(points[j], origin, pitch) : j \in 1..Len(points)} :
        InGrid(c, dimensions)}

average_voxelization_3d(values, points, origin, pitch, dimensions, channels) ==
    [cell \in OccupiedCells(points, origin, pitch, dimensions) |->
        LET js == PointsIn(cell, points, origin, pitch)
        IN  [c \in 1..channels |->
                Rat(SumSeq([k \in 1..Len(js) |-> values[js[k]][c]], 1), Len(js))]]

max_voxelization_3d(values, points, origin, pitch, dimensions, channels) ==
    [cell \in OccupiedCells(points, origin, pitch, dimensions) |->
        LET js == PointsIn(cell, points, origin, pitch)
        IN  [c \in 1..channels |->
                Rat(MaxSeq([k \in 1..Len(js) |-> values[js[k]][c]], 1), 1)]]

\* the value of a cell of a grid
GridAt(grid, cell, channels) ==
    IF cell \in DOMAIN grid THEN grid[cell] ELSE [c \in 1..channels |-> RatZero]

-----------------------------------------------------------------------------
(* objslampp: CAD models, rigid transforms and the average distances *)

\* YCBVideoModels.get_pcd(class_id): the reference point cloud of a class
get_pcd(class_id) ==
    << <<class_id, 0, 0>>, <<0 - class_id, 0, 0>>, <<2 * class_id + 1, 0, 0>> >>

\* quaternion_matrix(q)[:3, :3] for q = (w, x, y, z), taken at unit length;
\* the zero quaternion gives the identity
quaternion_matrix(q) ==
    LET w == q[1]
        x == q[2]
        y == q[3]
        z == q[4]
        n == w * w + x * x + y * y + z * z
    IN  IF n = 0
        THEN << <<1, 0, 0>>, <<0, 1, 0>>, <<0, 0, 1>> >>
        ELSE << << (n - 2 * (y * y + z * z)) \div n,
                   (2 * (x * y - z * w)) \div n,
                   (2 * (x * z + y * w)) \div n >>,
                << (2 * (x * y + z * w)) \div n,
                   (n - 2 * (x * x + z * z)) \div n,
                   (2 * (y * z - x * w)) \div n >>,
                << (2 * (x * z - y * w)) \div n,
                   (2 * (y * z + x * w)) \div n,
                   (n - 2 * (x * x + y * y)) \div n >> >>

compose_transform(R, t) == [R |-> R, t |-> t]

\* T applied to a point
TransformPoint(T, p) ==
    [r \in 1..3 |-> T.R[r][1] * p[1] + T.R[r][2] * p[2] + T.R[r][3] * p[3] + T.t[r]]

TransformPoints(T, pts) == [j \in 1..Len(pts) |-> TransformPoint(T, pts[j])]

\* the distance from each true point j to each predicted point k
PairDistances(pt, pp) ==
    [j \in 1..Len(pt) |-> [k \in 1..Len(pp) |-> Norm(VecSub(pt[j], pp[k]))]]

\* ADD: the mean distance of corresponding points; ADD-S: of nearest points
MeanDistances(D) ==
    [add   |-> Rat(SumSeq([j \in 1..Len(D) |-> D[j][j]], 1), Len(D)),
     add_s |-> Rat(SumSeq([j \in 1..Len(D) |-> MinSeq(D[j], 1)], 1), Len(D))]

\* objslampp.metrics.average_distance for one object: (ADD, ADD-S)
average_distance(cad_pcd, T_true, T_pred) ==
    MeanDistances(PairDistances(TransformPoints(T_true, cad_pcd),
                                TransformPoints(T_pred, cad_pcd)))

\* objslampp.functions.average_distance_l1 for one object
average_distance_l1(cad_pcd, T_true, T_pred) ==
    LET pt == TransformPoints(T_true, cad_pcd)
        pp == TransformPoints(T_pred, cad_pcd)
        n  == Len(cad_pcd)
    IN  Rat(SumSeq([j \in 1..n |-> NormL1(VecSub(pt[j], pp[j]))], 1), n)

-----------------------------------------------------------------------------
(* Python formatting and chainer.DictSummary *)

Digit(d) ==
    CASE d = 0 -> "0" [] d = 1 -> "1" [] d = 2 -> "2" [] d = 3 -> "3"
      [] d = 4 -> "4" [] d = 5 -> "5" [] d = 6 -> "6" [] d = 7 -> "7"
      [] d = 8 -> "8" [] d = 9 -> "9"

\* str(n) for n >= 0
RECURSIVE Decimal(_)
Decimal(n) == IF n < 10 THEN Digit(n) ELSE Decimal(n \div 10) \o Digit(n % 10)

\* the number of characters of str(n) for n >= 0
RECURSIVE DecimalLen(_)
DecimalLen(n) == IF n < 10 THEN 1 ELSE 1 + DecimalLen(n \div 10)

RECURSIVE Zeros(_)
Zeros(k) == IF k <= 0 THEN "" ELSE "0" \o Zeros(k - 1)

\* f'{n:04d}' for n >= 0
Format04d(n) == Zeros(4 - DecimalLen(n)) \o Decimal(n)

\* f'add/{class_id_i:04d}' and f'add_s/{class_id_i:04d}'
AddKey(class_id_i) == "add/" \o Format04d(class_id_i)
AddSKey(class_id_i) == "add_s/" \o Format04d(class_id_i)

\* DictSummary.add(d): each key keeps the sum and the count of its values
SummaryAdd(summary, d) ==
    [k \in DOMAIN summary \cup DOMAIN d |->
        IF k \notin DOMAIN d THEN summary[k]
        ELSE IF k \notin DOMAIN summary THEN [sum |-> d[k], n |-> 1]
        ELSE [sum |-> RatAdd(summary[k].sum, d[k]), n |-> summary[k].n + 1]]

\* DictSummary.compute_mean()
SummaryMean(summary) ==
    [k \in DOMAIN summary |-> RatDivInt(summary[k].sum, summary[k].n)]

\* a dict with no key
EmptyDict == [k \in {} |-> RatZero]

-----------------------------------------------------------------------------
(* BaselineModel.__call__ *)

NoGrid == [given |-> FALSE, dims |-> <<>>, data |-> <<>>]

NoKept ==
    [class_id |-> <<>>, pitch |-> <<>>, origin |-> <<>>,
     rgb |-> [H |-> 0, W |-> 0, C |-> 0, img |-> <<>>], pcd |-> <<>>,
     quaternion_true |-> <<>>, translation_true |-> <<>>,
     grid_nontarget |-> NoGrid, grid_empty |-> NoGrid]

NoPred ==
    [raw_quaternion |-> <<>>, raw_translation |-> <<>>,
     quaternion |-> <<>>, translation |-> <<>>,
     in_channels |-> 0, fused_nontarget |-> <<>>, fused_empty |-> <<>>]

NoReturn == [kind |-> "none", loss |-> RatZero]
Raised(error) == [kind |-> error, loss |-> RatZero]
Returned(loss) == [kind |-> "return", loss |-> loss]

\* keep = class_id != -1
Keep(a) == KeepMask(a.class_id)

\* a filtering that forgets pitch = pitch[keep]
FilterArgsButPitch(a, use_occupancy) ==
    LET keep == Keep(a)
    IN  [class_id         |-> BoolIndex(a.class_id, keep),
         pitch            |-> a.pitch,
         origin           |-> BoolIndex(a.origin, keep),
         rgb              |-> FilterImages(a.rgb, keep),
         pcd              |-> BoolIndex(a.pcd, keep),
         quaternion_true  |-> BoolIndex(a.quaternion_true, keep),
         translation_true |-> BoolIndex(a.translation_true, keep),
         grid_nontarget   |-> IF use_occupancy THEN FilterGrid(a.grid_nontarget, keep)
                              ELSE a.grid_nontarget,
         grid_empty       |-> IF use_occupancy THEN FilterGrid(a.grid_empty, keep)
                              ELSE a.grid_empty]

\* the arrays after x = x[keep]; the occupancy grids only with use_occupancy
FilterArgs(a, use_occupancy) ==
    LET keep == Keep(a)
    IN  [class_id         |-> BoolIndex(a.class_id, keep),
         pitch            |-> BoolIndex(a.pitch, keep),
         origin           |-> BoolIndex(a.origin, keep),
         rgb              |-> FilterImages(a.rgb, keep),
         pcd              |-> BoolIndex(a.pcd, keep),
         quaternion_true  |-> BoolIndex(a.quaternion_true, keep),
         translation_true |-> BoolIndex(a.translation_true, keep),
         grid_nontarget   |-> IF use_occupancy THEN FilterGrid(a.grid_nontarget, keep)
                              ELSE a.grid_nontarget,
         grid_empty       |-> IF use_occupancy THEN FilterGrid(a.grid_empty, keep)
                              ELSE a.grid_empty]

\* a call without the early return: the empty batch goes on to predict
CallWithoutShortCircuit ==
    /\ pc = "call"
    /\ CountTrue(Keep(args), 1) = 0
    /\ kept' = FilterArgs(args, FALSE)
    /\ pc' = "predict"
    /\ UNCHANGED <<cfg, params, args, h, h_vox, pred, reported, ret>>

\* if keep.sum() == 0: return chainer.Variable(zeros(()))
CallShortCircuit ==
    /\ pc = "call"
    /\ CountTrue(Keep(args), 1) = 0
    /\ ret' = Returned(RatZero)
    /\ pc' = "done"
    /\ UNCHANGED <<cfg, params, args, kept, h, h_vox, pred, reported>>

\* the filtering, up to the call of predict
CallFilter ==
    /\ pc = "call"
    /\ CountTrue(Keep(args), 1) # 0
    /\ IF cfg.use_occupancy /\ ~(args.grid_nontarget.given /\ args.grid_empty.given)
       THEN /\ ret' = Raised("AssertionError")
            /\ pc' = "done"
            /\ UNCHANGED kept
       ELSE /\ kept' = FilterArgs(args, cfg.use_occupancy)
            /\ pc' = "predict"
            /\ UNCHANGED ret
    /\ UNCHANGED <<cfg, params, args, h, h_vox, pred, reported>>

-----------------------------------------------------------------------------
(* BaselineModel.predict *)

\* assert H == W == 256; assert C == 3
ImageShapeOk(rgb) ==
    /\ rgb.H = ImageSize
    /\ rgb.W = ImageSize
    /\ rgb.C = ImageChannels

\* the assertion on grid_empty alone
GridEmptyShapeOk(grid_nontarget, grid_empty) == grid_empty.dims = Dimensions

\* assert grid_empty.shape[1:] == dimensions; the same of grid_nontarget
GridShapesOk(grid_nontarget, grid_empty) ==
    /\ grid_empty.dims = Dimensions
    /\ grid_nontarget.dims = Dimensions

\* the assertions that open predict
PredictShapesOk(k, use_occupancy) ==
    /\ ImageShapeOk(k.rgb)
    /\ use_occupancy => GridShapesOk(k.grid_nontarget, k.grid_empty)

PredictCheck ==
    /\ pc = "predict"
    /\ IF PredictShapesOk(kept, cfg.use_occupancy)
       THEN /\ pc' = "extract"
            /\ UNCHANGED ret
       ELSE /\ pc' = "done"
            /\ ret' = Raised("AssertionError")
    /\ UNCHANGED <<cfg, params, args, kept, h, h_vox, pred, reported>>

\* extractor, conv5, relu and resize_images: a feature vector per pixel of each image
FeatureExtraction ==
    /\ pc = "extract"
    /\ h' = [i \in 1..Len(kept.rgb.img) |-> params.feature[kept.rgb.img[i]]]
    /\ pc' = "voxelize"
    /\ UNCHANGED <<cfg, params, args, kept, h_vox, pred, reported, ret>>

\* a mask with all() in the place of any(): ~xp.isnan(pcd_i).all(axis=2)
ValidMaskAll(pcd_i) ==
    [j \in 1..Len(pcd_i) |-> ~(\A k \in 1..3 : pcd_i[j].nan[k])]

\* mask_i = ~xp.isnan(pcd_i).any(axis=2)
ValidMask(pcd_i) ==
    [j \in 1..Len(pcd_i) |-> ~(\E k \in 1..3 : pcd_i[j].nan[k])]

\* values = h_i[mask_i, :]
MaskedValues(h_i, pcd_i) == BoolIndex(h_i, ValidMask(pcd_i))

\* points = pcd_i[mask_i, :]
MaskedPoints(pcd_i) == BoolIndex(pcd_i, ValidMask(pcd_i))

\* the function the voxelization setting selects
VoxelizationKnown(voxelization) == voxelization \in {"average", "max"}

\* the two voxelization functions exchanged
VoxelizeExchanged(voxelization, values, points, origin, pitch) ==
    IF voxelization = "average"
    THEN max_voxelization_3d(values, points, origin, pitch, Dimensions, FeatureChannels)
    ELSE average_voxelization_3d(values, points, origin, pitch, Dimensions, FeatureChannels)

Voxelize(voxelization, values, points, origin, pitch) ==
    IF voxelization = "average"
    THEN average_voxelization_3d(values, points, origin, pitch, Dimensions, FeatureChannels)
    ELSE max_voxelization_3d(values, points, origin, pitch, Dimensions, FeatureChannels)

\* one pass of the loop over the samples
VoxelizeSample ==
    /\ pc = "voxelize"
    /\ Len(h_vox) < Len(kept.class_id)
    /\ LET i      == Len(h_vox) + 1
           values == MaskedValues(h[i], kept.pcd[i])
           points == MaskedPoints(kept.pcd[i])
       IN  IF VoxelizationKnown(cfg.voxelization)
           THEN /\ h_vox' = Append(h_vox,
                       [values |-> values,
                        points |-> points,
                        grid   |-> Voxelize(cfg.voxelization, values, points,
                                            kept.origin[i], kept.pitch[i])])
                /\ UNCHANGED <<pc, ret>>
           ELSE /\ ret' = Raised("AssertionError")
                /\ pc' = "done"
                /\ UNCHANGED h_vox
    /\ UNCHANGED <<cfg, params, args, kept, h, pred, reported>>

\* the class id used as the slice index, without the - 1
FgClassIdSame(class_id) == [b \in 1..Len(class_id) |-> class_id[b]]

\* fg_class_id = class_id - 1
FgClassId(class_id) == [b \in 1..Len(class_id) |-> class_id[b] - 1]

\* table[xp.arange(B), fg_class_id, :] for a (B, n_fg_class, k) table
SelectClass(table, fg_class_id, n_fg_class) ==
    [b \in 1..Len(fg_class_id) |-> table[b][NumpyIndex(n_fg_class, fg_class_id[b])]]

\* F.normalize(quaternion, axis=1)
NormalizeQuaternion(quaternion) ==
    [b \in 1..Len(quaternion) |-> NormalizeRow(quaternion[b])]

\* a decoding without the factor self._voxel_dim
DecodeTranslationNoDim(origin, translation, pitch) ==
    [b \in 1..Len(translation) |-> VecAdd(origin[b], VecScale(translation[b], pitch[b]))]

\* origin + translation * pitch[:, None] * self._voxel_dim
DecodeTranslation(origin, translation, pitch) ==
    [b \in 1..Len(translation) |->
        VecAdd(origin[b], VecScale(translation[b], pitch[b] * VoxelDim))]

\* the concatenation of the grids, the 3D convolutions and the two heads
PredictHead ==
    /\ pc = "voxelize"
    /\ Len(h_vox) = Len(kept.class_id)
    /\ LET B           == Len(kept.class_id)
           quaternion  == [b \in 1..B |-> params.quaternion[kept.rgb.img[b]]]
           translation == [b \in 1..B |-> params.translation[kept.rgb.img[b]]]
           fg_class_id == FgClassId(kept.class_id)
       IN  IF \A b \in 1..B : IndexInRange(cfg.n_fg_class, fg_class_id[b])
           THEN LET q == SelectClass(quaternion, fg_class_id, cfg.n_fg_class)
                    t == SelectClass(translation, fg_class_id, cfg.n_fg_class)
                IN  /\ pred' =
                          [raw_quaternion  |-> q,
                           raw_translation |-> t,
                           quaternion      |-> NormalizeQuaternion(q),
                           translation     |-> DecodeTranslation(kept.origin, t, kept.pitch),
                           in_channels     |-> IF cfg.use_occupancy
                                               THEN FeatureChannels + 2
                                               ELSE FeatureChannels,
                           fused_nontarget |-> IF cfg.use_occupancy
                                               THEN kept.grid_nontarget.data ELSE <<>>,
                           fused_empty     |-> IF cfg.use_occupancy
                                               THEN kept.grid_empty.data ELSE <<>>]
                    /\ pc' = "evaluate"
                    /\ UNCHANGED ret
           ELSE /\ ret' = Raised("IndexError")
                /\ pc' = "done"
                /\ UNCHANGED pred
    /\ UNCHANGED <<cfg, params, args, kept, h, h_vox, reported>>

-----------------------------------------------------------------------------
(* BaselineModel.evaluate and BaselineModel.loss *)

\* compose_transform(Rs=quaternion_matrix(quaternion_true)[:, :3, :3], ts=translation_true)[i]
TrueTransform(quaternion_true, translation_true, i) ==
    compose_transform(quaternion_matrix(quaternion_true[i]), translation_true[i])

\* the same of the predicted pose; quaternion_matrix takes the quaternion at unit
\* length, so the common denominator of the normalized row drops out
PredTransform(quaternion_pred, translation_pred, i) ==
    compose_transform(quaternion_matrix(quaternion_pred[i].num), translation_pred[i])

\* a dict with the pooled keys in both modes
SampleMetricsPooled(train, class_id_i, add, add_s) ==
    [k \in {"add", "add_s"} |-> IF k = "add" THEN add ELSE add_s]

\* the dict one sample adds to the summary
SampleMetrics(train, class_id_i, add, add_s) ==
    IF train
    THEN [k \in {"add", "add_s"} |-> IF k = "add" THEN add ELSE add_s]
    ELSE [k \in {AddKey(class_id_i), AddSKey(class_id_i)} |->
             IF k = AddKey(class_id_i) THEN add ELSE add_s]

\* the summary after the samples i..batch_size were added to `summary`
RECURSIVE EvaluateLoop(_, _, _, _, _)
EvaluateLoop(summary, i, k, p, train) ==
    IF i > Len(k.class_id) THEN summary
    ELSE LET class_id_i == k.class_id[i]
             d == average_distance(
                      get_pcd(class_id_i),
                      TrueTransform(k.quaternion_true, k.translation_true, i),
                      PredTransform(p.quaternion, p.translation, i))
         IN  EvaluateLoop(
                 SummaryAdd(summary, SampleMetrics(train, class_id_i, d.add, d.add_s)),
                 i + 1, k, p, train)

\* what evaluate reports: summary.compute_mean()
EvaluateReport(k, p, train) == SummaryMean(EvaluateLoop(EmptyDict, 1, k, p, train))

Evaluate ==
    /\ pc = "evaluate"
    /\ reported' = Append(reported, EvaluateReport(kept, pred, cfg.train))
    /\ pc' = "loss"
    /\ UNCHANGED <<cfg, params, args, kept, h, h_vox, pred, ret>>

\* loss += loss_i for the samples i..batch_size
RECURSIVE LossLoop(_, _, _, _)
LossLoop(loss, i, k, p) ==
    IF i > Len(k.class_id) THEN loss
    ELSE LossLoop(
             RatAdd(loss,
                    average_distance_l1(
                        get_pcd(k.class_id[i]),
                        TrueTransform(k.quaternion_true, k.translation_true, i),
                        PredTransform(p.quaternion, p.translation, i))),
             i + 1, k, p)

\* the batch size before the filtering
LossBatchSizeGiven(k) == Len(args.class_id)

\* batch_size = class_id.shape[0]
LossBatchSize(k) == Len(k.class_id)

\* loss /= batch_size
LossValue(k, p) == RatDivInt(LossLoop(RatZero, 1, k, p), LossBatchSize(k))

Loss ==
    /\ pc = "loss"
    /\ LET loss == LossValue(kept, pred)
       IN  /\ reported' = Append(reported, [k \in {"loss"} |-> loss])
           /\ ret' = Returned(loss)
    /\ pc' = "done"
    /\ UNCHANGED <<cfg, params, args, kept, h, h_vox, pred>>

-----------------------------------------------------------------------------
(* The calls checked: the configurations, the batches, and what the links   *)
(* compute for each image. Images and occupancy grids are told apart by the *)
(* position they have in the batch given to __call__.                        *)

ClassIds == {PaddingClassId} \cup 1..NFgClass

\* relu'd conv5 features of one pixel
FeatureVec(s) == [c \in 1..FeatureChannels |-> (s * c) % 7]

\* raw rows the quaternion head can produce (units of 1e-5)
RawQuats ==
    << <<0, 0, 0, 0>>, <<2000, 0, 0, 0>>, <<0, 0, 0, -30000>>, <<1, 0, 0, 0>>,
       <<0, 999, 0, 0>>, <<1000, 1000, 1000, 1000>>, <<0, 0, 1000, 0>> >>

QuatTable(shift) ==
    [t \in 1..MaxBatch |-> [c \in 0..NFgClass - 1 |->
        RawQuats[((t * NFgClass + c + shift) % Len(RawQuats)) + 1]]]

TransTable(shift) ==
    [t \in 1..MaxBatch |-> [c \in 0..NFgClass - 1 |->
        <<t - shift, c - shift, shift - 1>>]]

DefaultFeature ==
    [t \in 1..MaxBatch |-> [p \in 1..NumPixels |-> FeatureVec(t + p)]]

Params(feature, qshift, tshift) ==
    [feature |-> feature, quaternion |-> QuatTable(qshift), translation |-> TransTable(tshift)]

Config(voxelization, use_occupancy, train) ==
    [n_fg_class |-> NFgClass, voxelization |-> voxelization,
     use_occupancy |-> use_occupancy, train |-> train]

Pixel(x, y, z) == [v |-> <<x, y, z>>, nan |-> <<FALSE, FALSE, FALSE>>]
PixelNaN(x, y, z, nan) == [v |-> <<x, y, z>>, nan |-> nan]

DefaultPcd(B) ==
    [i \in 1..B |-> [p \in 1..NumPixels |->
        PixelNaN(p + i - 2, 0, 0, <<FALSE, FALSE, p = NumPixels /\ i = 2>>)]]

Images(B, H, W, C) == [H |-> H, W |-> W, C |-> C, img |-> [i \in 1..B |-> i]]

Grid(B, dims) == [given |-> TRUE, dims |-> dims, data |-> [i \in 1..B |-> i]]

\* grid geometries: Geom(1) has its corner at the world origin and unit cells
Geom(g) == [origin |-> <<2 - 2 * g, 0, 0>>, pitch |-> g]

TrueQuats == << <<1, 0, 0, 0>>, <<0, 0, 0, 1>>, <<0, 1, 0, 0>>, <<0, 0, 1, 0>> >>

Args(class_id, geom, rgb, pcd, grid_nontarget, grid_empty) ==
    [class_id |-> class_id,
     pitch |-> [i \in 1..Len(class_id) |-> Geom(geom[i]).pitch],
     origin |-> [i \in 1..Len(class_id) |-> Geom(geom[i]).origin],
     rgb |-> rgb,
     pcd |-> pcd,
     quaternion_true |-> [i \in 1..Len(class_id) |-> TrueQuats[((i - 1) % Len(TrueQuats)) + 1]],
     translation_true |-> [i \in 1..Len(class_id) |-> <<i, 0, i + 1>>],
     grid_nontarget |-> grid_nontarget,
     grid_empty |-> grid_empty]

Batches(ids) == UNION {[1..B -> ids] : B \in 0..MaxBatch}

\* batches with padding samples, with and without the occupancy grids;
\* the calls without grids are made in training mode
FilterInputs ==
    {[cfg |-> Config("average", use_occupancy, ~given),
      params |-> Params(DefaultFeature, 1, 0),
      args |-> Args(class_id, [i \in 1..Len(class_id) |-> i],
                    Images(Len(class_id), ImageSize, ImageSize, ImageChannels),
                    DefaultPcd(Len(class_id)),
                    IF given THEN Grid(Len(class_id), Dimensions) ELSE NoGrid,
                    IF given THEN Grid(Len(class_id), Dimensions) ELSE NoGrid)] :
        class_id \in Batches(ClassIds), use_occupancy \in BOOLEAN, given \in BOOLEAN}

VoxelPixels ==
    {Pixel(0, 0, 0), Pixel(1, 0, 0), Pixel(70, 0, 0),
     PixelNaN(0, 0, 0, <<TRUE, FALSE, FALSE>>), PixelNaN(0, 0, 0, <<FALSE, TRUE, FALSE>>),
     PixelNaN(1, 0, 0, <<FALSE, FALSE, TRUE>>), PixelNaN(0, 0, 0, <<TRUE, TRUE, TRUE>>)}

\* one sample, every point cloud image, both aggregation policies
VoxelInputs ==
    {[cfg |-> Config(voxelization, FALSE, TRUE),
      params |-> Params(DefaultFeature, 1, 0),
      args |-> Args(<<1>>, <<geom>>, Images(1, ImageSize, ImageSize, ImageChannels),
                    <<pcd>>, NoGrid, NoGrid)] :
        voxelization \in {"average", "max"}, geom \in 1..2,
        pcd \in [1..NumPixels -> VoxelPixels]}

\* foreground batches, every class, geometry and head output
HeadInputs ==
    UNION {
        {[cfg |-> Config("max", FALSE, TRUE),
          params |-> Params(DefaultFeature, qshift, qshift % 2),
          args |-> Args(class_id, geom, Images(B, ImageSize, ImageSize, ImageChannels),
                        DefaultPcd(B), NoGrid, NoGrid)] :
            class_id \in [1..B -> 1..NFgClass], geom \in [1..B -> 1..2],
            qshift \in 0..Len(RawQuats) - 1} :
        B \in 1..HeadBatch}

\* every image shape, grid shape and voxelization setting
ShapeInputs ==
    {[cfg |-> Config(voxelization, use_occupancy, FALSE),
      params |-> Params(DefaultFeature, 1, 0),
      args |-> Args(<<1>>, <<1>>, Images(1, H, W, C), DefaultPcd(1),
                    Grid(1, <<VoxelDim, VoxelDim, dn>>), Grid(1, <<de, VoxelDim, VoxelDim>>))] :
        voxelization \in {"average", "max", "sum"}, use_occupancy \in BOOLEAN,
        H \in {ImageSize, ImageSize \div 2}, W \in {ImageSize, ImageSize \div 2},
        C \in {ImageChannels, ImageChannels + 1},
        dn \in {VoxelDim, VoxelDim \div 2}, de \in {VoxelDim, VoxelDim \div 2}}

Inputs == FilterInputs \cup VoxelInputs \cup HeadInputs \cup ShapeInputs

-----------------------------------------------------------------------------

Init ==
    /\ \E inp \in Inputs :
        /\ cfg = inp.cfg
        /\ params = inp.params
        /\ args = inp.args
    /\ pc = "call"
    /\ kept = NoKept
    /\ h = <<>>
    /\ h_vox = <<>>
    /\ pred = NoPred
    /\ reported = <<>>
    /\ ret = NoReturn

Next ==
    \/ CallShortCircuit
    \/ CallFilter
    \/ PredictCheck
    \/ FeatureExtraction
    \/ VoxelizeSample
    \/ PredictHead
    \/ Evaluate
    \/ Loss

Spec == Init /\ [][Next]_vars

-----------------------------------------------------------------------------
(* Vocabulary of the properties: the batch as given to __call__ *)

BatchSize == Len(args.class_id)

\* the positions of the samples that are not padding
NonPadding == {i \in 1..BatchSize : args.class_id[i] # -1}

AllPadding == NonPadding = {}

\* the position a non-padding sample i has among the non-padding samples
Rank(i) == Cardinality({j \in NonPadding : j <= i})

\* predict has been entered
InPredict == pc \in {"predict", "extract", "voxelize"}

\* predict has returned a pose
AfterPredict == pc \in {"evaluate", "loss"} \/ (pc = "done" /\ ret.kind = "return" /\ ~AllPadding)

\* the arrays of __call__ have been filtered
Filtered == InPredict \/ AfterPredict

-----------------------------------------------------------------------------
\* C1: a call on a batch in which every sample is padding (the empty batch too)
\* returns the loss 0 without raising, and never enters predict, evaluate or loss:
\* nothing is filtered, predicted or reported, and no division takes place.
C1_AllPaddingReturnsZero ==
    AllPadding =>
        /\ pc \in {"call", "done"}
        /\ pc = "call" => ENABLED CallShortCircuit
        /\ pc = "done" => ret = [kind |-> "return", loss |-> <<0, 1>>]
        /\ kept = NoKept
        /\ h = <<>> /\ h_vox = <<>>
        /\ pred = NoPred
        /\ reported = <<>>

C1_Witness ==
    /\ AllPadding
    /\ BatchSize >= 2
    /\ cfg.use_occupancy
    /\ ~args.grid_empty.given
    /\ pc = "done"
    /\ ret.kind = "return"

\* C2: the arrays handed to predict, evaluate and loss hold exactly the
\* non-padding samples, in their original order, the same sample at the same
\* index of every array (the occupancy grids too when use_occupancy is on).
C2_OnlyKeptSamples ==
    Filtered =>
        /\ \A name \in {"class_id", "pitch", "origin", "pcd",
                        "quaternion_true", "translation_true"} :
              /\ Len(kept[name]) = Cardinality(NonPadding)
              /\ \A i \in NonPadding : kept[name][Rank(i)] = args[name][i]
        /\ Len(kept.rgb.img) = Cardinality(NonPadding)
        /\ \A i \in NonPadding : kept.rgb.img[Rank(i)] = args.rgb.img[i]
        /\ \A b \in 1..Len(kept.class_id) : kept.class_id[b] # -1
        /\ cfg.use_occupancy =>
              \A name \in {"grid_nontarget", "grid_empty"} :
                  /\ Len(kept[name].data) = Cardinality(NonPadding)
                  /\ \A i \in NonPadding : kept[name].data[Rank(i)] = args[name].data[i]
        /\ pc \in {"voxelize", "evaluate", "loss"} => Len(h) = Cardinality(NonPadding)
        /\ pc \in {"evaluate", "loss"} =>
              /\ Len(h_vox) = Cardinality(NonPadding)
              /\ Len(pred.quaternion) = Cardinality(NonPadding)
              /\ Len(pred.translation) = Cardinality(NonPadding)

C2_Witness ==
    /\ pc = "loss"
    /\ BatchSize = 3
    /\ args.class_id[1] = -1
    /\ args.class_id[2] # -1
    /\ args.class_id[3] # -1
    /\ cfg.use_occupancy
    /\ kept.pitch = <<args.pitch[2], args.pitch[3]>>

\* the original position of the b-th sample handed to predict
Original(b) == kept.rgb.img[b]

\* the pixels of sample i (original position) whose three coordinates are numbers
ValidPixels(i) ==
    {j \in 1..Len(args.pcd[i]) :
        ~args.pcd[i][j].nan[1] /\ ~args.pcd[i][j].nan[2] /\ ~args.pcd[i][j].nan[3]}

\* the position a valid pixel j has among the valid pixels of sample i
PixelRank(i, j) == Cardinality({k \in ValidPixels(i) : k <= j})

\* C3: the (feature, point) pairs handed to the voxelization function for a
\* sample are exactly the pixels of that sample whose three coordinates are all
\* numbers, in pixel order, each feature paired with the point of its own pixel;
\* every cell that holds a value holds the point of such a pixel.
C3_NaNPointsDiscarded ==
    \A b \in 1..Len(h_vox) :
        LET i == Original(b)
        IN  /\ Len(h_vox[b].points) = Cardinality(ValidPixels(i))
            /\ Len(h_vox[b].values) = Cardinality(ValidPixels(i))
            /\ \A j \in ValidPixels(i) :
                  /\ h_vox[b].points[PixelRank(i, j)] = args.pcd[i][j]
                  /\ h_vox[b].values[PixelRank(i, j)] = params.feature[i][j]
            /\ \A cell \in DOMAIN h_vox[b].grid :
                  \E j \in ValidPixels(i) :
                      \A k \in 1..3 :
                          cell[k] = (args.pcd[i][j].v[k] - args.origin[i][k]) \div args.pitch[i]

C3_Witness ==
    /\ Len(h_vox) = 1
    /\ Len(args.pcd[1]) >= 2
    /\ args.pcd[1][1].nan = <<FALSE, TRUE, FALSE>>
    /\ ValidPixels(1) = {2}
    /\ h_vox[1].values = <<params.feature[1][2]>>
    /\ DOMAIN h_vox[1].grid # {}

\* the raw row the translation head produced for the b-th sample and its class
RawTranslation(b) == params.translation[Original(b)][args.class_id[Original(b)] - 1]

\* |1 - n/d| <= 1/1000
NearOne(r) == 999 * r[2] <= 1000 * r[1] /\ 1000 * r[1] <= 1001 * r[2]

\* C4: every quaternion predict returns has L2 norm 1 within tolerance (1e-3
\* here), whatever the raw row the head produced for the selected class, the
\* all-zero row included.
C4_UnitNormAlways ==
    AfterPredict =>
        \A b \in 1..Len(pred.quaternion) : NearOne(RowNorm(pred.quaternion[b]))

\* C5: the translation returned for each sample is that sample's origin plus
\* its raw offset times that sample's pitch times 32; a zero raw offset gives
\* the origin.
C5_TranslationDecoded ==
    AfterPredict =>
        \A b \in 1..Len(pred.translation) :
            LET i == Original(b)
            IN  /\ \A k \in 1..3 :
                      pred.translation[b][k] =
                          args.origin[i][k] + RawTranslation(b)[k] * args.pitch[i] * 32
                /\ RawTranslation(b) = <<0, 0, 0>> => pred.translation[b] = args.origin[i]

C5_Witness ==
    /\ pc = "evaluate"
    /\ Len(pred.translation) = 2
    /\ args.pitch[1] # args.pitch[2]
    /\ args.origin[1] # args.origin[2]
    /\ RawTranslation(1) = <<0, 0, 0>>
    /\ RawTranslation(2) # <<0, 0, 0>>
    /\ pred.translation[1] = args.origin[1]

\* C6: the pose returned for each sample is computed from slice class_id - 1
\* (slices numbered 0..n_fg_class-1) of that sample's own head outputs.
C6_ClassSliceSelected ==
    AfterPredict =>
        \A b \in 1..Len(kept.class_id) :
            /\ kept.class_id[b] \in 1..cfg.n_fg_class
            /\ pred.raw_quaternion[b] = params.quaternion[Original(b)][kept.class_id[b] - 1]
            /\ pred.raw_translation[b] = params.translation[Original(b)][kept.class_id[b] - 1]
            /\ pred.quaternion[b].num = params.quaternion[Original(b)][kept.class_id[b] - 1]
            /\ \A k \in 1..3 :
                  pred.translation[b][k] =
                      kept.origin[b][k]
                        + params.translation[Original(b)][kept.class_id[b] - 1][k]
                            * kept.pitch[b] * 32

C6_Witness ==
    /\ pc = "evaluate"
    /\ kept.class_id = <<2, 1>>
    /\ pred.raw_translation[1] = params.translation[1][1]
    /\ pred.raw_translation[2] = params.translation[2][0]
    /\ params.translation[1][1] # params.translation[1][0]
    /\ params.translation[2][0] # params.translation[1][0]

\* the valid pixels of sample i whose point falls in `cell`
Members(i, cell) ==
    {j \in ValidPixels(i) :
        \A k \in 1..3 :
            cell[k] = (args.pcd[i][j].v[k] - args.origin[i][k]) \div args.pitch[i]}

InsideGrid(cell) == \A k \in 1..3 : cell[k] \in 0..31

RECURSIVE SumInts(_, _)
SumInts(S, f) ==
    IF S = {} THEN 0
    ELSE LET x == CHOOSE y \in S : TRUE
         IN  f[x] + SumInts(S \ {x}, f)

\* the cells looked at: those that hold a value, and cells around them
ProbeCells(grid) ==
    DOMAIN grid \cup {<<x, 0, 0>> : x \in -1..3} \cup {<<31, 31, 31>>, <<35, 0, 0>>, <<0, 1, 0>>}

\* C7: with voxelization 'average' each cell of a sample's grid holds the mean
\* of the features whose points fall in it, with 'max' their element-wise
\* maximum (one point: that point's feature), a cell that receives no point is
\* zero, and any other setting aborts predict with an assertion failure before
\* a grid is produced.
C7_AggregationPolicy ==
    /\ \A b \in 1..Len(h_vox) :
          LET i == Original(b)
              grid == h_vox[b].grid
          IN  /\ cfg.voxelization \in {"average", "max"}
              /\ \A cell \in DOMAIN grid : InsideGrid(cell)
              /\ \A cell \in ProbeCells(grid) :
                    LET m == Members(i, cell)
                        value == GridAt(grid, cell, 16)
                    IN  \A c \in 1..16 :
                            IF ~InsideGrid(cell) \/ m = {}
                            THEN value[c] = <<0, 1>>
                            ELSE IF cfg.voxelization = "average"
                            THEN value[c][1] * Cardinality(m) =
                                    value[c][2] * SumInts(m, [j \in m |-> params.feature[i][j][c]])
                            ELSE /\ value[c][2] = 1
                                 /\ \E j \in m : value[c][1] = params.feature[i][j][c]
                                 /\ \A j \in m : value[c][1] >= params.feature[i][j][c]
                                 /\ Cardinality(m) = 1 =>
                                       \A j \in m : [d \in 1..16 |-> value[d][1]] = params.feature[i][j]
    /\ cfg.voxelization \notin {"average", "max"} =>
          /\ h_vox = <<>>
          /\ pred = NoPred
          /\ pc \notin {"evaluate", "loss"}
          /\ pc = "done" => (ret.kind = "AssertionError" \/ AllPadding)

C7_Witness ==
    /\ cfg.voxelization = "average"
    /\ Len(h_vox) = 1
    /\ Members(1, <<1, 0, 0>>) = {1, 2}
    /\ params.feature[1][1] # params.feature[1][2]
    /\ h_vox[1].grid[<<1, 0, 0>>][1] = <<5, 2>>

\* the shapes predict asserts, read off the arguments of __call__
ImageBad == args.rgb.H # 256 \/ args.rgb.W # 256 \/ args.rgb.C # 3

GridsBad ==
    \/ args.grid_nontarget.dims # <<32, 32, 32>>
    \/ args.grid_empty.dims # <<32, 32, 32>>

\* predict was called: some sample is kept and __call__'s own assertions passed
PredictCalled ==
    /\ pc # "call"
    /\ ~AllPadding
    /\ cfg.use_occupancy => (args.grid_nontarget.given /\ args.grid_empty.given)

\* C8: predict aborts with an assertion failure, before feature extraction and
\* voxelization and without a pose, whenever the images are not 256 x 256 x 3
\* or, with use_occupancy, an occupancy grid is not 32 x 32 x 32 per sample;
\* without use_occupancy the grids are neither checked nor used.
C8_ShapeAssertions ==
    /\ (PredictCalled /\ (ImageBad \/ (cfg.use_occupancy /\ GridsBad))) =>
          /\ pc \in {"predict", "done"}
          /\ pc = "done" => ret.kind = "AssertionError"
          /\ h = <<>> /\ h_vox = <<>> /\ pred = NoPred /\ reported = <<>>
    /\ (PredictCalled /\ ~cfg.use_occupancy /\ ~ImageBad) =>
          /\ pc = "predict" => ENABLED (PredictCheck /\ pc' = "extract")
          /\ (pc = "done" /\ cfg.voxelization \in {"average", "max"}) => ret.kind = "return"
          /\ AfterPredict =>
                /\ pred.in_channels = 16
                /\ pred.fused_nontarget = <<>>
                /\ pred.fused_empty = <<>>
    /\ (AfterPredict /\ cfg.use_occupancy) =>
          /\ pred.in_channels = 18
          /\ pred.fused_nontarget = kept.grid_nontarget.data
          /\ pred.fused_empty = kept.grid_empty.data

C8_Witness ==
    /\ cfg.use_occupancy
    /\ ~ImageBad
    /\ args.grid_nontarget.dims = <<32, 32, 16>>
    /\ args.grid_empty.dims = <<32, 32, 32>>
    /\ pc = "done"
    /\ ret.kind = "AssertionError"
    /\ h = <<>>

\* the kept samples and their classes
KeptCount == Cardinality(NonPadding)

OwnClass(b) == args.class_id[Original(b)]

\* the kept samples of class c
OfClass(c) == {b \in 1..KeptCount : OwnClass(b) = c}

\* the b-th kept sample's own class's point cloud under its own true transform
\* and under its own predicted transform (one-element sets, as are the values
\* derived from them below)
OwnTruePoints(b) ==
    {TransformPoints(T, cad) :
        T \in {[R |-> quaternion_matrix(args.quaternion_true[Original(b)]),
                t |-> args.translation_true[Original(b)]]},
        cad \in {get_pcd(OwnClass(b))}}

OwnPredPoints(b) ==
    {TransformPoints(T, cad) :
        T \in {[R |-> quaternion_matrix(pred.quaternion[b].num),
                t |-> pred.translation[b]]},
        cad \in {get_pcd(OwnClass(b))}}

\* the ADD and ADD-S of the b-th kept sample
OwnMetrics(b) ==
    {MeanDistances(D) :
        D \in {PairDistances(pt, pp) : pt \in OwnTruePoints(b), pp \in OwnPredPoints(b)}}

\* the average-distance L1 loss of the b-th kept sample
OwnL1(b) ==
    {[l1 |-> Rat(SumSeq([j \in 1..Len(pt) |-> NormL1(VecSub(pt[j], pp[j]))], 1), Len(pt))] :
        pt \in OwnTruePoints(b), pp \in OwnPredPoints(b)}

\* the sum of field `name` of own[b] over the kept samples b, b + 1, ... in S
RECURSIVE SumFrom(_, _, _, _)
SumFrom(own, name, S, b) ==
    IF b > KeptCount THEN {RatZero}
    ELSE IF b \in S
    THEN {RatAdd(m[name], rest) : m \in own[b], rest \in SumFrom(own, name, S, b + 1)}
    ELSE SumFrom(own, name, S, b + 1)

\* that sum divided by the number of samples in S
Mean(own, name, S) ==
    {RatDivInt(sum, Cardinality(S)) : sum \in SumFrom(own, name, S, 1)}

AllMetrics == [b \in 1..KeptCount |-> OwnMetrics(b)]

AllL1 == [b \in 1..KeptCount |-> OwnL1(b)]

FourDigits(c) ==
    CASE c = 1 -> "0001" [] c = 2 -> "0002" [] c = 3 -> "0003" [] c = 4 -> "0004"

\* C9: evaluate reports means of the per-sample ADD and ADD-S: in training mode
\* exactly the keys 'add' and 'add_s', each the mean over all samples; in
\* evaluation mode, for every class present in the batch and no other, the keys
\* 'add/<class as 4 digits>' and 'add_s/<class as 4 digits>', each the mean
\* over the samples of that class.
C9_EvaluateMeans ==
    (AfterPredict /\ Len(reported) >= 1) =>
        LET report == reported[1]
            present == {args.class_id[i] : i \in NonPadding}
        IN  IF cfg.train
            THEN /\ DOMAIN report = {"add", "add_s"}
                 /\ {report["add"]} = Mean(AllMetrics, "add", 1..KeptCount)
                 /\ {report["add_s"]} = Mean(AllMetrics, "add_s", 1..KeptCount)
            ELSE /\ DOMAIN report =
                        UNION {{"add/" \o FourDigits(c), "add_s/" \o FourDigits(c)} : c \in present}
                 /\ \A c \in present :
                       /\ {report["add/" \o FourDigits(c)]} = Mean(AllMetrics, "add", OfClass(c))
                       /\ {report["add_s/" \o FourDigits(c)]} = Mean(AllMetrics, "add_s", OfClass(c))

C9_Witness ==
    /\ pc = "loss"
    /\ ~cfg.train
    /\ BatchSize = 3
    /\ args.class_id[1] = args.class_id[3]
    /\ args.class_id[2] # args.class_id[1]
    /\ ~AllPadding /\ KeptCount = 3
    /\ OwnMetrics(1) # OwnMetrics(3)
    /\ DOMAIN reported[1] = {"add/0001", "add_s/0001", "add/0002", "add_s/0002"}

\* C10: the loss __call__ returns for a batch with a kept sample is the sum of
\* the kept samples' average-distance L1 losses (each from the sample's own
\* class's point cloud and its own true and predicted transforms) divided by
\* the number of kept samples, not by the batch size.
C10_LossMeanOverKept ==
    (pc = "done" /\ ret.kind = "return" /\ ~AllPadding) =>
        /\ {ret.loss} = Mean(AllL1, "l1", 1..KeptCount)
        /\ reported[2] = [k \in {"loss"} |-> ret.loss]

C10_Witness ==
    /\ pc = "done"
    /\ ret.kind = "return"
    /\ BatchSize = 3
    /\ KeptCount = 2
    /\ args.class_id[2] = -1
    /\ OwnL1(1) # OwnL1(2)
    /\ ret.loss # <<0, 1>>

====
